---- MODULE Spec2Model ----
(***************************************************************************)
(* Model of the sign-translator backend (sign_translator/backend/main.py): *)
(* the POST /api/transcribe handler with its temporary directory, ffmpeg   *)
(* probe and conversion, the OpenAI transcription fallback chain, the      *)
(* tokenizer, and GET /api/config.                                         *)
(*                                                                         *)
(* A Python str is a sequence of characters.  An ASCII character is the    *)
(* one-character string; a non-ASCII character is named by its code point: *)
(*   "U+00C9" LATIN CAPITAL LETTER E WITH ACUTE   (alnum, upper)           *)
(*   "U+00E9" LATIN SMALL LETTER E WITH ACUTE     (alnum, lower)           *)
(*   "U+0130" LATIN CAPITAL LETTER I WITH DOT ABOVE (lower() is 2 chars)   *)
(*   "U+0307" COMBINING DOT ABOVE                 (neither alnum nor space)*)
(*   "U+00A0" NO-BREAK SPACE                      (isspace)                *)
(***************************************************************************)
EXTENDS Integers, Sequences, FiniteSets

VARIABLES ffmpegPath, apiKey, request, pc, filename, suffix, td, tdCreated,
          calls, exe, probeOutcome, modelIdx, setupOk, outcomes, text,
          raised, pending, response, config

vars == <<ffmpegPath, apiKey, request, pc, filename, suffix, td, tdCreated,
          calls, exe, probeOutcome, modelIdx, setupOk, outcomes, text,
          raised, pending, response, config>>

\* ---------------------------------------------------------------- bounds
MaxNameLen == 4
MaxPathLen == 1
MaxTextLen == 3
LongMsgLen == 600

\* ------------------------------------------------------------ characters
AsciiUpperSeq == <<"A", "B", "C", "D", "E", "F", "G", "H", "I", "J", "K", "L", "M", "N", "O", "P",
      "Q", "R", "S", "T", "U", "V", "W", "X", "Y", "Z">>
AsciiLowerSeq == <<"a", "b", "c", "d", "e", "f", "g", "h", "i", "j", "k", "l", "m", "n", "o", "p",
      "q", "r", "s", "t", "u", "v", "w", "x", "y", "z">>
Range(s) == {s[i] : i \in DOMAIN s}
AsciiUpper == Range(AsciiUpperSeq)
AsciiLower == Range(AsciiLowerSeq)
AsciiDigit == {"0", "1", "2", "3", "4", "5", "6", "7", "8", "9"}
AsciiSpace == {" ", "\t", "\n"}
AsciiPunct == {".", "!", ",", "(", ")", ":", "-", "/", "_"}
AsciiChars == AsciiUpper \cup AsciiLower \cup AsciiDigit \cup AsciiSpace \cup AsciiPunct

\* str.isalnum() of one character
IsAlnum(ch) == ch \in AsciiUpper \cup AsciiLower \cup AsciiDigit \cup {"U+00C9", "U+00E9", "U+0130"}

\* str.isspace() of one character
IsSpace(ch) == ch \in AsciiSpace \cup {"U+00A0"}

\* str.lower() of one character: a string, since one character may become two
LowerChar(ch) ==
    IF ch \in AsciiUpper
    THEN <<AsciiLowerSeq[CHOOSE i \in DOMAIN AsciiUpperSeq : AsciiUpperSeq[i] = ch]>>
    ELSE IF ch = "U+00C9" THEN <<"U+00E9">>
    ELSE IF ch = "U+0130" THEN <<"i", "U+0307">>
    ELSE <<ch>>

\* str.lower(): the lower-cased characters in order (the string is halved to
\* keep the evaluation shallow)
RECURSIVE str_lower(_)
str_lower(s) ==
    IF Len(s) = 0 THEN <<>>
    ELSE IF Len(s) = 1 THEN LowerChar(s[1])
    ELSE LET h == Len(s) \div 2
         IN str_lower(SubSeq(s, 1, h)) \o str_lower(SubSeq(s, h + 1, Len(s)))

RECURSIVE str_lstrip(_)
str_lstrip(s) == IF s # <<>> /\ IsSpace(Head(s)) THEN str_lstrip(Tail(s)) ELSE s

RECURSIVE str_rstrip(_)
str_rstrip(s) ==
    IF s # <<>> /\ IsSpace(s[Len(s)]) THEN str_rstrip(SubSeq(s, 1, Len(s) - 1)) ELSE s

\* str.strip()
str_strip(s) == str_rstrip(str_lstrip(s))

\* s.split(sep) for a one-character separator: every separator cuts, empty
\* pieces are kept, and a string without the separator is its only piece
RECURSIVE str_split_sep(_, _, _)
str_split_sep(s, sep, cur) ==
    IF s = <<>> THEN <<cur>>
    ELSE IF Head(s) = sep THEN <<cur>> \o str_split_sep(Tail(s), sep, <<>>)
    ELSE str_split_sep(Tail(s), sep, Append(cur, Head(s)))

\* s.split(): the maximal runs of non-whitespace characters, in order
str_split_ws(s) ==
    LET n == Len(s)
        starts == {i \in 1..n : ~IsSpace(s[i]) /\ (i = 1 \/ IsSpace(s[i - 1]))}
        EndOf(i) == CHOOSE j \in i..n :
                        /\ j = n \/ IsSpace(s[j + 1])
                        /\ \A m \in i..j : ~IsSpace(s[m])
        Nth(k) == CHOOSE i \in starts : Cardinality({j \in starts : j < i}) = k - 1
    IN [k \in 1..Cardinality(starts) |-> SubSeq(s, Nth(k), EndOf(Nth(k)))]

\* ' '.join(words)
RECURSIVE str_join(_)
str_join(ws) ==
    IF ws = <<>> THEN <<>>
    ELSE IF Len(ws) = 1 THEN ws[1]
    ELSE ws[1] \o <<" ">> \o str_join(Tail(ws))

\* all strings over an alphabet, of length at most n
StringsUpTo(alphabet, n) == UNION {[1..k -> alphabet] : k \in 0..n}

\* ---------------------------------------------------- program constants
ALLOWED_EXTENSIONS ==
    {<<"m", "p", "4">>, <<"m", "o", "v">>, <<"m", "k", "v">>, <<"w", "e", "b", "m">>, <<"m", "p", "3">>, <<"w", "a", "v">>, <<"m", "4", "a">>}
DEFAULT_FFMPEG == <<"f", "f", "m", "p", "e", "g">>
DEFAULT_FILENAME == <<"u", "p", "l", "o", "a", "d">>
MODEL_NAMES == <<"gpt-4o-transcribe", "whisper-1">>
PLACEHOLDER ==
    <<"h", "e", "l", "l", "o", " ", "w", "o", "r", "l", "d", " ", "t", "h", "i", "s",
      " ", "i", "s", " ", "a", " ", "s", "a", "m", "p", "l", "e", " ", "t", "r",
      "a", "n", "s", "c", "r", "i", "p", "t", "i", "o", "n", " ", "f", "o", "r",
      " ", "s", "i", "g", "n", " ", "t", "r", "a", "n", "s", "l", "a", "t", "i",
      "o", "n", " ", "d", "e", "m", "o">>
UNAVAILABLE ==
    <<"t", "r", "a", "n", "s", "c", "r", "i", "p", "t", "i", "o", "n", " ", "u", "n",
      "a", "v", "a", "i", "l", "a", "b", "l", "e", " ", "(", "O", "p", "e", "n",
      "A", "I", " ", "m", "o", "d", "e", "l", "s", " ", "n", "o", "t", " ", "r",
      "e", "a", "c", "h", "a", "b", "l", "e", ")">>
ERROR_PREFIX == <<"t", "r", "a", "n", "s", "c", "r", "i", "p", "t", "i", "o", "n", " ", "e", "r",
      "r", "o", "r", ":", " ">>
ERROR_LIMIT == 500
UNSUPPORTED_DETAIL == "Unsupported file type"
FFMPEG_NOT_FOUND ==
    "ffmpeg not found. Install it or set FFMPEG_PATH to full executable path (e.g. C:/ffmpeg/bin/ffmpeg.exe)."
FFMPEG_FAILED == "ffmpeg failed (cmd: <exe>): <stderr[:500]>"

\* ------------------------------------------------------------ input sets
\* an environment variable: unset (os.getenv gives None) or set to a string
Unset == [present |-> FALSE, value |-> <<>>]
EnvSet(s) == [present |-> TRUE, value |-> s]
PathChars == {" ", "f"}
FfmpegPaths == {Unset} \cup {EnvSet(s) : s \in StringsUpTo(PathChars, MaxPathLen)}
ApiKeys == {Unset, EnvSet(<<>>), EnvSet(<<"k">>)}
NameChars == {".", "m", "p", "4", "M"}
Filenames == StringsUpTo(NameChars, MaxNameLen)
TextChars == {"B", " ", "!", "U+00C9", "U+0130"}
RemoteTexts == StringsUpTo(TextChars, MaxTextLen)
LongMsg == [i \in 1..LongMsgLen |-> "x"]
SetupErrors == {<<"n", "o", " ", "m", "o", "d", "u", "l", "e">>, LongMsg}
\* the import and the construction of the client: done, or the message of
\* the exception they raised
Setups == {[ok |-> TRUE, msg |-> <<>>]} \cup {[ok |-> FALSE, msg |-> m] : m \in SetupErrors}

INPUT_FILE(sfx) == <<"input", sfx>>
AUDIO_FILE == <<"audio", <<"w", "a", "v">>>>

NoExc == [step |-> "none", type |-> "none", msg |-> ""]
NoResponse == [status |-> 0, detail |-> "", text |-> <<>>, words |-> <<>>]
NoConfig == [configured |-> <<>>, resolved |-> FALSE, available |-> FALSE]
NoCalls == [probe |-> 0, convert |-> 0, transcribe |-> 0, remote |-> 0]
\* what the framework answers when an exception leaves a route handler
ServerError == [status |-> 500, detail |-> "Internal Server Error", text |-> <<>>, words |-> <<>>]
HttpError(code, detail) == [status |-> code, detail |-> detail, text |-> <<>>, words |-> <<>>]

\* ------------------------------------------------------- pure functions
\* a Python truth test of an environment value: None and "" are false
Truthy(env) == env.present /\ env.value # <<>>

get_ffmpeg_executable(env) == IF Truthy(env) THEN str_strip(env.value) ELSE DEFAULT_FFMPEG

\* file.filename or "upload"
EffectiveFilename(f) == IF f = <<>> THEN DEFAULT_FILENAME ELSE f

SuffixNoLower(f) ==
    LET parts == str_split_sep(EffectiveFilename(f), ".", <<>>) IN parts[Len(parts)]

\* filename.split('.')[-1].lower()
Suffix(f) ==
    LET parts == str_split_sep(EffectiveFilename(f), ".", <<>>) IN str_lower(parts[Len(parts)])

\* the outcomes of launching [exe, ...]: the process ran (any exit status),
\* FileNotFoundError, or another OSError such as PermissionError; an empty
\* name can never run
LaunchOutcomes(e) == IF e = <<>> THEN {"missing", "denied"} ELSE {"ran", "missing", "denied"}

\* _has_ffmpeg: True, False, or the exception it lets through
has_ffmpeg(outcome) ==
    IF outcome = "ran" THEN "True" ELSE IF outcome = "missing" THEN "False" ELSE "raise"

\* the try/except of the handler wraps extract_audio and transcribe_audio only
HandlerCatches(step) == step \in {"extract", "transcribe"}

Min(a, b) == IF a < b THEN a ELSE b
Truncate(s) == SubSeq(s, 1, Min(Len(s), ERROR_LIMIT))

ErrorStringTruncatesDetailOnly(msg) == ERROR_PREFIX \o Truncate(msg)

\* f"transcription error: {e}"[:500]
ErrorString(msg) == Truncate(ERROR_PREFIX \o msg)

ModelOrderSwapped(i) == MODEL_NAMES[Len(MODEL_NAMES) + 1 - i]

\* the model name of the i-th iteration of the loop over the candidates
ModelAt(i) == MODEL_NAMES[i]

CleanChar(ch) == IF IsAlnum(ch) \/ IsSpace(ch) THEN ch ELSE " "
Clean(s) == [i \in DOMAIN s |-> CleanChar(s[i])]

TokenizeNoLower(t) == str_split_ws(Clean(t))
TokenizeCleanThenLower(t) == str_split_ws(str_lower(Clean(t)))

tokenize(t) == str_split_ws(Clean(str_lower(t)))

EnumerateFromOne(ws) == [k \in DOMAIN ws |-> [w |-> ws[k], i |-> k]]

\* [{"w": w, "i": i} for i, w in enumerate(words)]
Enumerate(ws) == [k \in DOMAIN ws |-> [w |-> ws[k], i |-> k - 1]]

TempDirExitKeepsOnError(dir, failing) ==
    IF failing THEN dir ELSE [exists |-> FALSE, files |-> {}]

\* TemporaryDirectory.__exit__: the directory and its content are removed
TempDirExit(dir, failing) == [exists |-> FALSE, files |-> {}]

\* ----------------------------------------------------------------- Init
Init ==
    /\ ffmpegPath \in FfmpegPaths
    /\ apiKey \in ApiKeys
    /\ request = "none"
    /\ pc = "idle"
    /\ filename = <<>>
    /\ suffix = <<>>
    /\ td = [exists |-> FALSE, files |-> {}]
    /\ tdCreated = FALSE
    /\ calls = NoCalls
    /\ exe = <<>>
    /\ probeOutcome = "none"
    /\ modelIdx = 0
    /\ setupOk = FALSE
    /\ outcomes = <<>>
    /\ text = <<>>
    /\ raised = NoExc
    /\ pending = "none"
    /\ response = NoResponse
    /\ config = NoConfig

\* an exception of the given step starts to propagate: the handler's except
\* clause turns it into HTTPException(500, str(e)) if the step is in its try
Raise(step, type, msg) ==
    /\ raised' = [step |-> step, type |-> type, msg |-> msg]
    /\ pending' = IF HandlerCatches(step) THEN "http" ELSE "raw"

\* ------------------------------------------------------------- actions
\* POST /api/transcribe arrives: extension validation
Post(f) ==
    /\ pc = "idle"
    /\ request' = "transcribe"
    /\ filename' = f
    /\ suffix' = Suffix(f)
    /\ IF Suffix(f) \notin ALLOWED_EXTENSIONS
       THEN /\ raised' = [step |-> "validate", type |-> "HTTPException", msg |-> UNSUPPORTED_DETAIL]
            /\ pending' = "http"
            /\ response' = HttpError(400, UNSUPPORTED_DETAIL)
            /\ pc' = "done"
       ELSE /\ pc' = "mktemp"
            /\ UNCHANGED <<raised, pending, response>>
    /\ UNCHANGED <<ffmpegPath, apiKey, td, tdCreated, calls, exe, probeOutcome,
                   modelIdx, setupOk, outcomes, text, config>>

\* with tempfile.TemporaryDirectory() as td
MkTemp(ok) ==
    /\ pc = "mktemp"
    /\ IF ok
       THEN /\ td' = [exists |-> TRUE, files |-> {}]
            /\ tdCreated' = TRUE
            /\ pc' = "write"
            /\ UNCHANGED <<raised, pending, response>>
       ELSE /\ Raise("mktemp", "OSError", "cannot create temporary directory")
            /\ response' = ServerError
            /\ pc' = "done"
            /\ UNCHANGED <<td, tdCreated>>
    /\ UNCHANGED <<ffmpegPath, apiKey, request, filename, suffix, calls, exe,
                   probeOutcome, modelIdx, setupOk, outcomes, text, config>>

\* open(temp_in, "wb") and f.write(await file.read())
WriteInput(ok, created) ==
    /\ pc = "write"
    /\ ok => created
    /\ td' = [td EXCEPT !.files = IF created THEN @ \cup {INPUT_FILE(suffix)} ELSE @]
    /\ IF ok
       THEN /\ pc' = "probe"
            /\ UNCHANGED <<raised, pending>>
       ELSE /\ Raise("write", "OSError", "No space left on device")
            /\ pc' = "exit"
    /\ UNCHANGED <<ffmpegPath, apiKey, request, filename, suffix, tdCreated, calls,
                   exe, probeOutcome, modelIdx, setupOk, outcomes, text, response, config>>

\* extract_audio up to the availability probe
Probe(o) ==
    /\ pc = "probe"
    /\ o \in LaunchOutcomes(get_ffmpeg_executable(ffmpegPath))
    /\ exe' = get_ffmpeg_executable(ffmpegPath)
    /\ probeOutcome' = o
    /\ calls' = [calls EXCEPT !.probe = @ + 1]
    /\ IF has_ffmpeg(o) = "True"
       THEN /\ pc' = "convert"
            /\ UNCHANGED <<raised, pending>>
       ELSE /\ pc' = "exit"
            /\ IF has_ffmpeg(o) = "False"
               THEN Raise("extract", "RuntimeError", FFMPEG_NOT_FOUND)
               ELSE Raise("extract", "PermissionError", "[Errno 13] Permission denied")
    /\ UNCHANGED <<ffmpegPath, apiKey, request, filename, suffix, td, tdCreated,
                   modelIdx, setupOk, outcomes, text, response, config>>

\* extract_audio: the conversion command
Convert(o, wrote) ==
    /\ pc = "convert"
    /\ o = "exit0" => wrote
    /\ o = "oserror" => ~wrote
    /\ calls' = [calls EXCEPT !.convert = @ + 1]
    /\ td' = [td EXCEPT !.files = IF wrote THEN @ \cup {AUDIO_FILE} ELSE @]
    /\ IF o = "exit0"
       THEN /\ pc' = "transcribe"
            /\ UNCHANGED <<raised, pending>>
       ELSE /\ pc' = "exit"
            /\ IF o = "nonzero"
               THEN Raise("extract", "RuntimeError", FFMPEG_FAILED)
               ELSE Raise("extract", "OSError", "[Errno 2] No such file or directory")
    /\ UNCHANGED <<ffmpegPath, apiKey, request, filename, suffix, tdCreated, exe,
                   probeOutcome, modelIdx, setupOk, outcomes, text, response, config>>

\* transcribe_audio up to the loop: the credential test and the client set-up
TranscribeStart(setup) ==
    /\ pc = "transcribe"
    /\ calls' = [calls EXCEPT !.transcribe = @ + 1]
    /\ IF ~Truthy(apiKey)
       THEN /\ setup.ok
            /\ text' = PLACEHOLDER
            /\ pc' = "exit"
            /\ UNCHANGED <<modelIdx, setupOk>>
       ELSE IF setup.ok
       THEN /\ setupOk' = TRUE
            /\ modelIdx' = 1
            /\ pc' = "attempt"
            /\ UNCHANGED text
       ELSE /\ text' = ErrorString(setup.msg)
            /\ pc' = "exit"
            /\ UNCHANGED <<modelIdx, setupOk>>
    /\ UNCHANGED <<ffmpegPath, apiKey, request, filename, suffix, td, tdCreated, exe,
                   probeOutcome, outcomes, raised, pending, response, config>>

\* one iteration of the loop over the candidate models: kind is "openfail"
\* (open raised), "raise" (the remote call raised), "empty" (no text in the
\* answer) or "text" (the answer carries the non-empty text t)
Attempt(kind, t) ==
    /\ pc = "attempt"
    /\ (kind = "text") = (t # <<>>)
    /\ outcomes' = Append(outcomes, [model |-> ModelAt(modelIdx), kind |-> kind, text |-> t])
    /\ calls' = [calls EXCEPT !.remote = IF kind = "openfail" THEN @ ELSE @ + 1]
    /\ IF kind = "text"
       THEN /\ text' = t
            /\ pc' = "exit"
            /\ UNCHANGED modelIdx
       ELSE IF modelIdx < Len(MODEL_NAMES)
       THEN /\ modelIdx' = modelIdx + 1
            /\ UNCHANGED <<pc, text>>
       ELSE /\ text' = UNAVAILABLE
            /\ pc' = "exit"
            /\ UNCHANGED modelIdx
    /\ UNCHANGED <<ffmpegPath, apiKey, request, filename, suffix, td, tdCreated, exe,
                   probeOutcome, setupOk, raised, pending, response, config>>

\* the with block is left, normally or by a propagating exception
ExitWith ==
    /\ pc = "exit"
    /\ td' = TempDirExit(td, pending # "none")
    /\ IF pending = "none"
       THEN /\ pc' = "tokenize"
            /\ UNCHANGED response
       ELSE /\ pc' = "done"
            /\ response' = IF pending = "http" THEN HttpError(500, raised.msg) ELSE ServerError
    /\ UNCHANGED <<ffmpegPath, apiKey, request, filename, suffix, tdCreated, calls, exe,
                   probeOutcome, modelIdx, setupOk, outcomes, text, raised, pending, config>>

\* words = tokenize(text) and the JSON response
Respond ==
    /\ pc = "tokenize"
    /\ response' = [status |-> 200, detail |-> "", text |-> text,
                    words |-> Enumerate(tokenize(text))]
    /\ pc' = "done"
    /\ UNCHANGED <<ffmpegPath, apiKey, request, filename, suffix, td, tdCreated, calls,
                   exe, probeOutcome, modelIdx, setupOk, outcomes, text, raised, pending,
                   config>>

\* GET /api/config
ApiConfig(o) ==
    /\ pc = "idle"
    /\ o \in LaunchOutcomes(get_ffmpeg_executable(ffmpegPath))
    /\ request' = "config"
    /\ exe' = get_ffmpeg_executable(ffmpegPath)
    /\ probeOutcome' = o
    /\ calls' = [calls EXCEPT !.probe = @ + 1]
    /\ pc' = "done"
    /\ IF has_ffmpeg(o) = "raise"
       THEN /\ Raise("config", "PermissionError", "[Errno 13] Permission denied")
            /\ response' = ServerError
            /\ UNCHANGED config
       ELSE /\ config' = [configured |-> get_ffmpeg_executable(ffmpegPath),
                          resolved |-> (o = "ran"),
                          available |-> (has_ffmpeg(o) = "True")]
            /\ response' = [NoResponse EXCEPT !.status = 200]
            /\ UNCHANGED <<raised, pending>>
    /\ UNCHANGED <<ffmpegPath, apiKey, filename, suffix, td, tdCreated, modelIdx,
                   setupOk, outcomes, text>>

Next ==
    \/ pc = "idle" /\ \E f \in Filenames : Post(f)
    \/ \E ok \in BOOLEAN : MkTemp(ok)
    \/ \E ok \in BOOLEAN, created \in BOOLEAN : WriteInput(ok, created)
    \/ \E o \in {"ran", "missing", "denied"} : Probe(o)
    \/ \E o \in {"exit0", "nonzero", "oserror"}, wrote \in BOOLEAN : Convert(o, wrote)
    \/ \E setup \in Setups : TranscribeStart(setup)
    \/ pc = "attempt" /\ \E kind \in {"openfail", "raise", "empty", "text"}, t \in RemoteTexts :
                             Attempt(kind, t)
    \/ ExitWith
    \/ Respond
    \/ \E o \in {"ran", "missing", "denied"} : ApiConfig(o)

Spec == Init /\ [][Next]_vars

\* ---------------------------------------------------------------- claims
IsPrefix(p, s) == Len(p) <= Len(s) /\ SubSeq(s, 1, Len(p)) = p
IsBlank(s) == \A i \in DOMAIN s : IsSpace(s[i])
Words(resp) == [k \in DOMAIN resp.words |-> resp.words[k].w]
Ok200 == request = "transcribe" /\ pc = "done" /\ response.status = 200

\* the part of a name after its last '.', the whole name if it has none
AfterLastDot(s) ==
    LET dots == {i \in DOMAIN s : s[i] = "."} IN
    IF dots = {} THEN s
    ELSE SubSeq(s, (CHOOSE i \in dots : \A j \in dots : j <= i) + 1, Len(s))

\* C1: a POST /api/transcribe whose lower-cased extension (the part of the
\* filename after its last '.') is not an allowed one ends with the 400
\* "Unsupported file type" response, with no temporary directory created, no
\* ffmpeg launch (probe or conversion) and no transcription call; with an
\* allowed extension, in any letter case, it goes on to the temp-file step.
C1_ExtensionGate ==
    request = "transcribe" =>
        IF str_lower(AfterLastDot(EffectiveFilename(filename))) \notin ALLOWED_EXTENSIONS
        THEN /\ pc = "done"
             /\ response = HttpError(400, UNSUPPORTED_DETAIL)
             /\ ~tdCreated /\ ~td.exists /\ td.files = {}
             /\ calls = NoCalls
        ELSE /\ response.status # 400
             /\ pc = "mktemp" \/ raised.step = "mktemp" \/ tdCreated

C1_Witness ==
    /\ request = "transcribe" /\ pc = "done" /\ response.status = 400
    /\ filename = <<"M", "p", "4", ".">> /\ suffix = <<>>
    /\ ~tdCreated /\ calls = NoCalls

\* C2: when a request that allocated a temporary directory has produced its
\* response, the directory and the files in it no longer exist, whichever
\* way the request ended.
C2_TempDirRemoved ==
    (request = "transcribe" /\ pc = "done" /\ tdCreated) => (~td.exists /\ td.files = {})

C2_Witness ==
    /\ pc = "done" /\ tdCreated /\ raised.msg = FFMPEG_FAILED
    /\ response.status = 500 /\ ~td.exists

\* C3: every exception raised after extension validation (allocating the
\* temporary directory, writing the upload, extraction, transcription,
\* tokenization) is caught by the handler and answered with a 500 whose
\* detail is the exception's message.
C3_AllExceptionsCaught ==
    (request = "transcribe" /\ pc = "done"
        /\ raised.step \in {"mktemp", "write", "extract", "transcribe", "tokenize"})
    => (pending = "http" /\ response = HttpError(500, raised.msg))

\* C4: transcribe_audio never raises; it returns the transcribed text, the
\* placeholder, the "transcription unavailable" string, or a string that
\* starts with "transcription error: " and has at most 500 characters.
C4_TranscribeAudioReturnsString ==
    (calls.transcribe > 0 /\ pc # "attempt") =>
        /\ raised = NoExc
        /\ \/ text = PLACEHOLDER
           \/ text = UNAVAILABLE
           \/ IsPrefix(ERROR_PREFIX, text) /\ Len(text) <= 500
           \/ /\ outcomes # <<>>
              /\ outcomes[Len(outcomes)].kind = "text"
              /\ text = outcomes[Len(outcomes)].text
              /\ text # <<>>

C4_Witness ==
    /\ pc = "done" /\ response.status = 200
    /\ IsPrefix(ERROR_PREFIX, response.text) /\ Len(response.text) = 500

\* C5: if the ffmpeg executable cannot be launched at all, whatever the
\* launch failure, the request ends with the 500 "ffmpeg not found" response
\* and the conversion command is never invoked.
C5_AnyLaunchFailureIsNotFound ==
    (request = "transcribe" /\ pc = "done" /\ probeOutcome \in {"missing", "denied"})
    => (calls.convert = 0 /\ response = HttpError(500, FFMPEG_NOT_FOUND))

\* C6: every token of a 200 response is non-empty and made of the
\* characters a-z and 0-9 only.
C6_TokensAsciiLowerDigits ==
    Ok200 => \A k \in DOMAIN response.words :
                 /\ response.words[k].w # <<>>
                 /\ Range(response.words[k].w) \subseteq AsciiLower \cup AsciiDigit

\* C6 (amended): every token is non-empty and made of alphanumeric
\* characters (str.isalnum) only, none of them whitespace or an ASCII
\* uppercase letter; the tokens of an ASCII-only text are made of a-z and
\* 0-9 only.
C6_TokensAlnum ==
    Ok200 => \A k \in DOMAIN response.words :
                 /\ response.words[k].w # <<>>
                 /\ \A ch \in Range(response.words[k].w) :
                        /\ IsAlnum(ch) /\ ~IsSpace(ch) /\ ch \notin AsciiUpper
                        /\ Range(response.text) \subseteq AsciiChars
                               => ch \in AsciiLower \cup AsciiDigit

C6_Witness ==
    /\ Ok200 /\ Len(response.words) = 2
    /\ "U+00E9" \in Range(response.words[1].w) /\ "b" \in Range(response.words[2].w)

\* C7: tokenizing the tokens of a response joined by single spaces gives the
\* same sequence of tokens.
C7_TokenizeIdempotent ==
    Ok200 => tokenize(str_join(Words(response))) = Words(response)

C7_Witness ==
    /\ Ok200 /\ Len(response.words) = 2
    /\ "U+0130" \in Range(response.text) /\ "!" \in Range(response.text)

\* C8: the words of a 200 response are the tokens of its text in order, and
\* the k-th entry (counting from 0) has i = k: 0..n-1 for n tokens.
C8_IndexDensity ==
    Ok200 =>
        /\ Len(response.words) = Len(tokenize(response.text))
        /\ \A k \in DOMAIN response.words :
               /\ response.words[k].w = tokenize(response.text)[k]
               /\ response.words[k].i = k - 1

C8_Witness ==
    /\ Ok200 /\ response.text = PLACEHOLDER
    /\ Len(response.words) = 11 /\ response.words[11].i = 10

\* C9: with a credential and a client, the models are tried in the order
\* gpt-4o-transcribe, whisper-1; the second only after the first raised or
\* gave no text; the result is the text of the first attempt that gave one
\* and nothing is tried after it; "transcription unavailable" is returned
\* exactly when both attempts gave no text.
C9_ModelOrder ==
    (setupOk /\ pc # "attempt") =>
        /\ Len(outcomes) \in 1..2
        /\ outcomes[1].model = "gpt-4o-transcribe"
        /\ Len(outcomes) = 2 <=> outcomes[1].kind # "text"
        /\ Len(outcomes) = 2 => outcomes[2].model = "whisper-1"
        /\ \A k \in DOMAIN outcomes :
               outcomes[k].kind = "text" => (k = Len(outcomes) /\ text = outcomes[k].text)
        /\ text = UNAVAILABLE
               <=> (Len(outcomes) = 2 /\ \A k \in DOMAIN outcomes : outcomes[k].kind # "text")

C9_Witness ==
    /\ Ok200 /\ Len(outcomes) = 2
    /\ outcomes[1].kind = "raise" /\ outcomes[2].kind = "text"
    /\ response.text = outcomes[2].text

\* C10: get_ffmpeg_executable gives "ffmpeg" when FFMPEG_PATH is unset or
\* blank (empty or only whitespace), otherwise the override without its
\* surrounding whitespace, and never the empty string.
C10_DefaultWhenBlank ==
    calls.probe > 0 =>
        /\ exe = IF ~ffmpegPath.present \/ IsBlank(ffmpegPath.value)
                 THEN DEFAULT_FFMPEG ELSE str_strip(ffmpegPath.value)
        /\ exe # <<>>
====
